---------------------------- MODULE Spec2Model ----------------------------
(***************************************************************************)
(* nordvpn-tui: the key-driven state machine of src/app.rs (App::run and   *)
(* the handlers it calls), the generic StatefulList, and the adapter of    *)
(* src/nord.rs that turns the text printed by the `nordvpn` executable     *)
(* into a Status.                                                          *)
(*                                                                         *)
(* Conventions.  Option<usize> is a sequence of length at most one: None   *)
(* is <<>> and Some(i) is <<i>>.  Vec indices are zero-based as in Rust,   *)
(* so vec.get(i) is vec[i + 1].  A String is a sequence of tokens (atomic  *)
(* substrings); the tokens that the code searches for are listed below.    *)
(***************************************************************************)
EXTENDS Integers, Sequences, FiniteSets, TLC

VARIABLES
    status,     \* App.status
    pane,       \* App.pane
    countries,  \* App.countries : StatefulList<Country>
    cities,     \* App.cities    : StatefulList<City>
    help,       \* App.help
    pc,         \* position of App::run: "draw", "read", "done", "error", "panic"
    fatal,      \* the panic that ended the process ("" while it lives)
    frame,      \* panels drawn by the last completed render, in order
    shown,      \* the App fields that render read (<<>> before the first)
    renders,    \* completed renders since the last event read (or the start)
    event,      \* the event read in the current loop iteration
    before,     \* the App fields when that event was read
    calls,      \* collaborator commands run in the current loop iteration
    list,       \* a StatefulList exercised on its own
    ops,        \* the methods called on `list`, in order
    trail       \* `list` as constructed, then as each of those calls left it

vars == <<status, pane, countries, cities, help, pc, fatal, frame, shown,
          renders, event, before, calls, list, ops, trail>>

appVars == <<status, pane, countries, cities, help, pc, fatal, frame, shown,
             renders, event, before, calls>>

listVars == <<list, ops, trail>>

-----------------------------------------------------------------------------
(* Bounds *)

\* longest initial country list
MaxCountries == 3

\* longest city list of a country
MaxCities == 3

\* longest item sequence of the list exercised on its own
MaxLen == 3

\* calls made on that list: one more than its greatest length, so that the
\* wrap-around of a full cycle is seen
MaxOps == MaxLen + 1

\* most lines of a text that get_status is given on its own
MaxLines == 3

-----------------------------------------------------------------------------
(* Option and Vec *)

None == <<>>

Some(i) == <<i>>

\* Vec::get: the item at zero-based index idx, if any
get(items, idx) == IF idx >= 0 /\ idx < Len(items) THEN Some(items[idx + 1]) ELSE None

\* the value 0usize - 1 takes when overflow checks are off (usize::MAX); any
\* value above every list length behaves alike
UsizeMax == 2147483647


-----------------------------------------------------------------------------
(* StatefulList<T>: items and the selected index of its ListState *)

with_items(items) == [state |-> None, items |-> items]

\* next() with the bound compared one too high: the cursor runs past the end
next_off_by_one(l) ==
    IF Len(l.items) > 0
    THEN LET i == IF l.state # None
                  THEN IF l.state[1] >= Len(l.items) THEN 0 ELSE l.state[1] + 1
                  ELSE 0
         IN [l EXCEPT !.state = Some(i)]
    ELSE l

next(l) ==
    IF Len(l.items) > 0
    THEN LET i == IF l.state # None
                  THEN IF l.state[1] >= Len(l.items) - 1 THEN 0 ELSE l.state[1] + 1
                  ELSE 0
         IN [l EXCEPT !.state = Some(i)]
    ELSE l

\* previous() that stays on the first item instead of wrapping to the last
previous_no_wrap(l) ==
    IF Len(l.items) > 0
    THEN LET i == IF l.state # None
                  THEN IF l.state[1] = 0 THEN 0 ELSE l.state[1] - 1
                  ELSE 0
         IN [l EXCEPT !.state = Some(i)]
    ELSE l

previous(l) ==
    IF Len(l.items) > 0
    THEN LET i == IF l.state # None
                  THEN IF l.state[1] = 0 THEN Len(l.items) - 1 ELSE l.state[1] - 1
                  ELSE 0
         IN [l EXCEPT !.state = Some(i)]
    ELSE l

first(l) == [l EXCEPT !.state = Some(0)]

\* `self.items.len() - 1` on an empty Vec: usize subtraction overflows
last_overflows(l) == Len(l.items) = 0

\* the result of last() when it does not panic (with overflow checks off the
\* subtraction wraps)
last(l) ==
    [l EXCEPT !.state = Some(IF last_overflows(l) THEN UsizeMax ELSE Len(l.items) - 1)]

-----------------------------------------------------------------------------
(* src/nord.rs: text of the collaborator, as sequences of tokens *)

NL == "\n"

Noise == "\r-\r  \r\r-\r  \r"

contains(s, tok) == \E i \in 1..Len(s) : s[i] = tok

\* str::split: the pieces between the occurrences of sep (always one at least)
RECURSIVE split(_, _)
split(s, sep) ==
    IF ~contains(s, sep)
    THEN <<s>>
    ELSE LET k == CHOOSE i \in 1..Len(s) :
                      s[i] = sep /\ \A j \in 1..(i - 1) : s[j] # sep
         IN <<SubSeq(s, 1, k - 1)>> \o split(SubSeq(s, k + 1, Len(s)), sep)

\* str::lines: split on line ends; a final empty line is not a line
lines(s) ==
    LET ps == split(s, NL)
    IN IF ps[Len(ps)] = <<>> THEN SubSeq(ps, 1, Len(ps) - 1) ELSE ps

\* str::replace: every occurrence of the token `from` becomes the tokens `to`
RECURSIVE replace(_, _, _)
replace(s, from, to) ==
    IF s = <<>>
    THEN <<>>
    ELSE (IF Head(s) = from THEN to ELSE <<Head(s)>>) \o replace(Tail(s), from, to)

clean_string(input) == replace(replace(input, Noise, <<>>), NL, <<>>)

\* Iterator::find over lines(), then get_or_insert("")
find_line(source, arg) ==
    LET ls == lines(source)
        hits == {i \in 1..Len(ls) : contains(ls[i], arg)}
    IN IF hits = {} THEN <<>> ELSE ls[CHOOSE i \in hits : \A j \in hits : i <= j]

extract_string(source, arg) == clean_string(replace(find_line(source, arg), arg, <<>>))

\* `result_arr[1]` is out of range when the text holds the banner but no "."
parse_output_panics(stdout) == contains(stdout, "NordVPN") /\ Len(split(stdout, ".")) < 2

parse_output(stdout) ==
    IF contains(stdout, "NordVPN") THEN split(stdout, ".")[2] ELSE stdout

extract_transfer(result) ==
    [up |-> extract_string(result, " sent"), down |-> extract_string(result, " received")]

\* get_status, from the standard output of `nordvpn status` on
get_status(stdout) ==
    LET result == parse_output(stdout)
    IN [status |-> extract_string(result, "Status: "),
        ip |-> extract_string(result, "IP: "),
        country |-> extract_string(result, "Country: "),
        city |-> extract_string(result, "City: "),
        transfer |-> extract_transfer(
                         replace(extract_string(result, "Transfer: "), ", ", <<NL>>)),
        uptime |-> replace(replace(replace(extract_string(result, "Uptime: "),
                                           " hours ", <<":">>),
                                   " minutes ", <<":">>),
                           " seconds", <<>>)]

-----------------------------------------------------------------------------
(* The data the program is started with *)

CountryNames == <<"Albania", "Belgium", "Chile", "Denmark", "Estonia">>

CityNames == <<"a", "b", "c", "d", "e">>

\* a City of country i; its name is clean_string of a token of `nordvpn cities`
City(i, j) == [name |-> clean_string(<<CountryNames[i], CityNames[j], NL>>)]

\* a Country with m cities
Country(i, m) ==
    [name |-> clean_string(<<CountryNames[i], NL>>), cities |-> [j \in 1..m |-> City(i, j)]]

\* Nord.countries: n countries; the i-th has (k + i - 1) mod (MaxCities + 1)
\* cities, so that with k ranging over 0..MaxCities a city list of every
\* length, the empty one included, occurs at every position
Countries(n, k) == [i \in 1..n |-> Country(i, (k + i - 1) % (MaxCities + 1))]

\* what `nordvpn status` may print
StatusTexts ==
    { <<"Status: ", "Connected", NL, "IP: ", "192", ".", "0", ".", "2", ".", "1", NL,
        "Country: ", "Spain", NL, "City: ", "Madrid", NL,
        "Transfer: ", "1.2 GiB", " received", ", ", "500 MiB", " sent", NL,
        "Uptime: ", "2", " hours ", "5", " minutes ", "10", " seconds", NL>>,
      <<"Status: ", "Disconnected", NL>>,
      <<"A new version of ", "NordVPN", " is available", NL,
        "Status: ", "Disconnected", NL>> }

\* Command::output(): the process could not be started, or ran and printed
Outputs == {[ok |-> FALSE, stdout |-> <<>>]} \cup {[ok |-> TRUE, stdout |-> t] : t \in StatusTexts}

\* what one loop iteration may draw from its environment: whether `nordvpn c`
\* or `nordvpn d` could be started, the outcome of `nordvpn status`, the random
\* number, and whether the build checks integer overflow
NoInput == [spawn |-> TRUE, reply |-> [ok |-> FALSE, stdout |-> <<>>], random |-> 0,
            checked |-> TRUE]

-----------------------------------------------------------------------------
(* enum Pane *)

Pane_first == "Country"

Pane_next(p) == IF p = "Country" THEN "City" ELSE "Country"

\* prev() that stops at the first pane instead of wrapping to the last
Pane_prev_stops(p) == "Country"

Pane_prev(p) == IF p = "Country" THEN "City" ELSE "Country"

-----------------------------------------------------------------------------
(* App: the handlers, as functions of the App fields.  `a` carries the fields *)
(* of App, the commands run so far in this iteration, the panic raised (if   *)
(* any) and whether run() has returned.                                      *)

App ==
    [status |-> status, pane |-> pane, countries |-> countries, cities |-> cities,
     help |-> help, calls |-> <<>>, fatal |-> "", done |-> FALSE]

Fields(a) ==
    [status |-> a.status, pane |-> a.pane, countries |-> a.countries,
     cities |-> a.cities, help |-> a.help]

Panic(a, why) == [a EXCEPT !.fatal = why]

\* Command::output().expect("Err..."): `ran` is the App once the command is
\* issued, ok whether the process could be started
spawned(ran, ok) == IF ok THEN ran ELSE Panic(ran, "Err...")

\* nord::connect
connect(a, val, in) ==
    spawned([a EXCEPT !.calls = Append(@, [cmd |-> "c", arg |-> val, stdout |-> <<>>])],
            in.spawn)

\* nord::disconnect
nord_disconnect(a, in) ==
    spawned([a EXCEPT !.calls = Append(@, [cmd |-> "d", arg |-> <<>>, stdout |-> <<>>])],
            in.spawn)

\* nord::get_status and the assignment of its result to self.status: `ran` is
\* the App once `nordvpn status` is issued, reply what the process gave
status_fetched(ran, reply) ==
    IF ~reply.ok THEN Panic(ran, "Err...")
    ELSE IF parse_output_panics(reply.stdout)
         THEN Panic(ran, "parse_output: index out of bounds")
    ELSE [ran EXCEPT !.status = get_status(reply.stdout)]

reload_status(a, in) ==
    IF a.fatal # ""
    THEN a
    ELSE status_fetched(
             [a EXCEPT !.calls =
                  Append(@, [cmd |-> "status", arg |-> <<>>, stdout |-> in.reply.stdout])],
             in.reply)

\* the lookup index taken as 0 whatever is selected
selected_ignored(l) == 0

\* `match state.selected() { Some(i) => i, None => 0 }`
selected_or_0(l) == IF l.state # None THEN l.state[1] ELSE 0

\* reload_cities replacing the items and keeping the ListState of the old list
cities_of_keeps_cursor(a, country) ==
    IF country = None
    THEN Panic(a, "reload_cities: expect")
    ELSE [a EXCEPT !.cities.items = country[1].cities]

\* the rest of reload_cities once `country` is looked up
cities_of(a, country) ==
    IF country = None
    THEN Panic(a, "reload_cities: expect")
    ELSE [a EXCEPT !.cities = with_items(country[1].cities)]

reload_cities(a) ==
    IF a.fatal # ""
    THEN a
    ELSE cities_of(a, get(a.countries.items, selected_or_0(a.countries)))

\* nord::connect(&item.expect("").name), then reload_status
connect_item(a, item, why, in) ==
    IF item = None
    THEN Panic(a, why)
    ELSE reload_status(connect(a, item[1].name, in), in)

connect_selected(a, in) ==
    IF a.pane = "Country"
    THEN connect_item(a, get(a.countries.items, selected_or_0(a.countries)),
                      "connect_selected: expect", in)
    ELSE connect_item(a, get(a.cities.items, selected_or_0(a.cities)),
                      "connect_selected: expect", in)

\* connect_random that always takes the first country
connect_random_first(a, in) ==
    IF Len(a.countries.items) = 0
    THEN Panic(a, "gen_range: empty range")
    ELSE connect_item(a, get(a.countries.items, 0), "connect_random: expect", in)

connect_random(a, in) ==
    IF Len(a.countries.items) = 0
    THEN Panic(a, "gen_range: empty range")
    ELSE connect_item(a, get(a.countries.items, in.random), "connect_random: expect", in)

\* disconnect() that leaves the stored status as it was
disconnect_without_reload(a, in) == nord_disconnect(a, in)

disconnect(a, in) == reload_status(nord_disconnect(a, in), in)

next_pane(a) == [a EXCEPT !.pane = Pane_next(a.pane)]

prev_pane(a) == [a EXCEPT !.pane = Pane_prev(a.pane)]

\* self.countries.last(), which panics on an empty list when overflow is checked
countries_last(a, in) ==
    IF last_overflows(a.countries) /\ in.checked
    THEN Panic(a, "last: attempt to subtract with overflow")
    ELSE [a EXCEPT !.countries = last(a.countries)]

\* q and Esc ending the loop whether or not the help is shown
quit_always(a) == [a EXCEPT !.done = TRUE]

\* q and Esc toggling the help as ? does, and never ending the loop
quit_toggles_help(a) == [a EXCEPT !.help = ~a.help]

\* the arm of q and Esc
quit_or_hide(a) == IF a.help THEN [a EXCEPT !.help = ~a.help] ELSE [a EXCEPT !.done = TRUE]

\* the first match on key.code
match_code(a, code, in) ==
    CASE code \in {"q", "Esc"} -> quit_or_hide(a)
      [] code \in {"l", "Right", "Tab"} -> next_pane(a)
      [] code \in {"h", "Left"} -> prev_pane(a)
      [] code = "r" -> reload_status(a, in)
      [] code = "R" -> connect_random(a, in)
      [] code \in {"c", "Enter"} -> connect_selected(a, in)
      [] code = "d" -> disconnect(a, in)
      [] code = "?" -> [a EXCEPT !.help = ~a.help]
      [] OTHER -> a

\* the Country arm with G reloading the cities as g does
match_country_last_reloads(a, code, in) ==
    CASE code \in {"j", "Down"} -> reload_cities([a EXCEPT !.countries = next(a.countries)])
      [] code \in {"k", "Up"} -> reload_cities([a EXCEPT !.countries = previous(a.countries)])
      [] code = "g" -> reload_cities([a EXCEPT !.countries = first(a.countries)])
      [] code = "G" -> reload_cities(countries_last(a, in))
      [] OTHER -> a

\* the arm Pane::Country of the match on self.pane
match_country(a, code, in) ==
    CASE code \in {"j", "Down"} -> reload_cities([a EXCEPT !.countries = next(a.countries)])
      [] code \in {"k", "Up"} -> reload_cities([a EXCEPT !.countries = previous(a.countries)])
      [] code = "g" -> reload_cities([a EXCEPT !.countries = first(a.countries)])
      [] code = "G" -> countries_last(a, in)
      [] OTHER -> a

\* the City arm with g and G moving the city cursor
match_city_moves_city(a, code, in) ==
    CASE code \in {"j", "Down"} -> [a EXCEPT !.cities = next(a.cities)]
      [] code \in {"k", "Up"} -> [a EXCEPT !.cities = previous(a.cities)]
      [] code = "g" -> [a EXCEPT !.cities = first(a.cities)]
      [] code = "G" -> [a EXCEPT !.cities = last(a.cities)]
      [] OTHER -> a

\* the arm Pane::City of the match on self.pane
match_city(a, code, in) ==
    CASE code \in {"j", "Down"} -> [a EXCEPT !.cities = next(a.cities)]
      [] code \in {"k", "Up"} -> [a EXCEPT !.cities = previous(a.cities)]
      [] code = "g" -> [a EXCEPT !.countries = first(a.countries)]
      [] code = "G" -> countries_last(a, in)
      [] OTHER -> a

\* the match on self.pane
match_pane(a, code, in) ==
    IF a.pane = "Country" THEN match_country(a, code, in) ELSE match_city(a, code, in)

\* the second match skipped while the help is shown
then_match_pane_help_hidden(a, code, in) ==
    IF a.done \/ a.fatal # "" \/ a.help THEN a ELSE match_pane(a, code, in)

\* the second match is reached unless the first returned or panicked
then_match_pane(a, code, in) ==
    IF a.done \/ a.fatal # "" THEN a ELSE match_pane(a, code, in)

\* the loop body handling a key event of any kind, not only a press
on_event_any_kind(a, ev, in) ==
    IF ev.type = "Key"
    THEN then_match_pane(match_code(a, ev.code, in), ev.code, in)
    ELSE a

\* the body of the loop from the event read on
on_event(a, ev, in) ==
    IF ev.type = "Key" /\ ev.kind = "Press"
    THEN then_match_pane(match_code(a, ev.code, in), ev.code, in)
    ELSE a

-----------------------------------------------------------------------------
(* App::run *)

NoEvent == [type |-> "None", kind |-> "", code |-> ""]

KeyCodes ==
    {"q", "Esc", "l", "Right", "Tab", "h", "Left", "r", "R", "c", "Enter", "d", "?",
     "j", "Down", "k", "Up", "g", "G", "x"}

Press(code) == [type |-> "Key", kind |-> "Press", code |-> code]

\* the list under test starts as this and stays so while the App runs
IdleList == with_items(<<>>)

\* App::new(nord) at the top of the loop of run().  App::new takes any Nord:
\* any list of countries (the empty one too), each with any list of cities
Init ==
    /\ \E n \in 0..MaxCountries, k \in 0..MaxCities :
           countries = with_items(Countries(n, k))
    /\ \E t \in StatusTexts : ~parse_output_panics(t) /\ status = get_status(t)
    /\ pane = Pane_first
    /\ cities = with_items(<<>>)
    /\ help = FALSE
    /\ pc = "draw"
    /\ fatal = ""
    /\ frame = <<>>
    /\ shown = <<>>
    /\ renders = 0
    /\ event = NoEvent
    /\ before = Fields(App)
    /\ calls = <<>>
    /\ list = IdleList
    /\ ops = <<>>
    /\ trail = <<>>

\* impl Widget for &mut App: the panels render() draws, in order
render(a) ==
    IF a.help
    THEN <<"help">>
    ELSE <<"title", "status", "countries", "cities", "footer">>

\* a draw whose render of the city list drops the list's selection
Draw_drops_selection ==
    /\ pc = "draw"
    /\ frame' = render(App)
    /\ shown' = Fields(App)
    /\ renders' = renders + 1
    /\ pc' = "read"
    /\ event' = NoEvent
    /\ before' = Fields(App)
    /\ calls' = <<>>
    /\ cities' = with_items(cities.items)
    /\ UNCHANGED <<status, pane, countries, help, fatal, listVars>>

\* self.draw(&mut terminal)?  succeeds; a new iteration starts
Draw ==
    /\ pc = "draw"
    /\ frame' = render(App)
    /\ shown' = Fields(App)
    /\ renders' = renders + 1
    /\ pc' = "read"
    /\ event' = NoEvent
    /\ before' = Fields(App)
    /\ calls' = <<>>
    /\ UNCHANGED <<status, pane, countries, cities, help, fatal, listVars>>

\* self.draw(&mut terminal)?  fails at the top of a new iteration: run()
\* returns the error
DrawFails ==
    /\ pc = "draw"
    /\ pc' = "error"
    /\ event' = NoEvent
    /\ before' = Fields(App)
    /\ calls' = <<>>
    /\ UNCHANGED <<status, pane, countries, cities, help, fatal, frame, shown, renders,
                   listVars>>

\* event::read()?  fails: run() returns the error
ReadFails ==
    /\ pc = "read"
    /\ pc' = "error"
    /\ UNCHANGED <<status, pane, countries, cities, help, fatal, frame, shown, renders,
                   event, before, calls, listVars>>

\* the loop body going back to the event read without a render when the
\* event changed no field
Commit_skips_draw(b, ev) ==
    /\ status' = b.status
    /\ pane' = b.pane
    /\ countries' = b.countries
    /\ cities' = b.cities
    /\ help' = b.help
    /\ calls' = b.calls
    /\ fatal' = b.fatal
    /\ pc' = IF b.fatal # "" THEN "panic"
             ELSE IF b.done THEN "done"
             ELSE IF Fields(b) = Fields(App) THEN "read" ELSE "draw"
    /\ event' = ev
    /\ before' = Fields(App)
    /\ renders' = 0
    /\ UNCHANGED <<frame, shown, listVars>>

\* the state the loop body leaves: b is the App after it
Commit(b, ev) ==
    /\ status' = b.status
    /\ pane' = b.pane
    /\ countries' = b.countries
    /\ cities' = b.cities
    /\ help' = b.help
    /\ calls' = b.calls
    /\ fatal' = b.fatal
    /\ pc' = IF b.fatal # "" THEN "panic" ELSE IF b.done THEN "done" ELSE "draw"
    /\ event' = ev
    /\ before' = Fields(App)
    /\ renders' = 0
    /\ UNCHANGED <<frame, shown, listVars>>

\* event::read()? returns ev and the rest of the loop body runs
Handle(ev, in) == Commit(on_event(App, ev, in), ev)

KeyQuit ==
    /\ pc = "read"
    /\ \E code \in {"q", "Esc"} : Handle(Press(code), NoInput)

KeyNextPane ==
    /\ pc = "read"
    /\ \E code \in {"l", "Right", "Tab"} : Handle(Press(code), NoInput)

KeyPrevPane ==
    /\ pc = "read"
    /\ \E code \in {"h", "Left"} : Handle(Press(code), NoInput)

KeyReloadStatus ==
    /\ pc = "read"
    /\ \E o \in Outputs : Handle(Press("r"), [NoInput EXCEPT !.reply = o])

\* gen_range(0..len) draws below len (and panics when len is 0)
KeyConnectRandom ==
    /\ pc = "read"
    /\ \E o \in Outputs, sp \in BOOLEAN, rnd \in 0..(Len(countries.items) - 1) \cup {0} :
           Handle(Press("R"), [NoInput EXCEPT !.reply = o, !.spawn = sp, !.random = rnd])

KeyConnectSelected ==
    /\ pc = "read"
    /\ \E code \in {"c", "Enter"}, o \in Outputs, sp \in BOOLEAN :
           Handle(Press(code), [NoInput EXCEPT !.reply = o, !.spawn = sp])

KeyDisconnect ==
    /\ pc = "read"
    /\ \E o \in Outputs, sp \in BOOLEAN :
           Handle(Press("d"), [NoInput EXCEPT !.reply = o, !.spawn = sp])

KeyHelp ==
    /\ pc = "read"
    /\ Handle(Press("?"), NoInput)

KeyDown ==
    /\ pc = "read"
    /\ \E code \in {"j", "Down"} : Handle(Press(code), NoInput)

KeyUp ==
    /\ pc = "read"
    /\ \E code \in {"k", "Up"} : Handle(Press(code), NoInput)

KeyFirst ==
    /\ pc = "read"
    /\ Handle(Press("g"), NoInput)

KeyLast ==
    /\ pc = "read"
    /\ \E ck \in BOOLEAN : Handle(Press("G"), [NoInput EXCEPT !.checked = ck])

\* a key no arm matches
KeyOther ==
    /\ pc = "read"
    /\ Handle(Press("x"), NoInput)

\* a key event whose kind is not Press
KeyNotPressed ==
    /\ pc = "read"
    /\ \E kind \in {"Repeat", "Release"}, code \in KeyCodes :
           Handle([type |-> "Key", kind |-> kind, code |-> code], NoInput)

\* an event that is no key event
NotKey ==
    /\ pc = "read"
    /\ \E type \in {"Resize", "Mouse", "FocusGained"} :
           Handle([type |-> type, kind |-> "", code |-> ""], NoInput)

Next ==
    \/ Draw
    \/ DrawFails
    \/ ReadFails
    \/ KeyQuit
    \/ KeyNextPane
    \/ KeyPrevPane
    \/ KeyReloadStatus
    \/ KeyConnectRandom
    \/ KeyConnectSelected
    \/ KeyDisconnect
    \/ KeyHelp
    \/ KeyDown
    \/ KeyUp
    \/ KeyFirst
    \/ KeyLast
    \/ KeyOther
    \/ KeyNotPressed
    \/ NotKey

Spec == Init /\ [][Next]_vars

-----------------------------------------------------------------------------
(* StatefulList on its own: any bounded sequence of its methods, called on *)
(* any list of at most MaxLen items with nothing selected                  *)

ListItems == {"x", "y"}

ItemSeqs == UNION {[1..n -> ListItems] : n \in 0..MaxLen}

InitList ==
    /\ list \in {with_items(items) : items \in ItemSeqs}
    /\ ops = <<>>
    /\ trail = <<list>>
    /\ countries = with_items(<<>>)
    /\ cities = with_items(<<>>)
    /\ status = get_status(<<>>)
    /\ pane = Pane_first
    /\ help = FALSE
    /\ pc = "idle"
    /\ fatal = ""
    /\ frame = <<>>
    /\ shown = <<>>
    /\ renders = 0
    /\ event = NoEvent
    /\ before = Fields(App)
    /\ calls = <<>>

\* one more method call: l is the list it leaves
Called(op, l) ==
    /\ list' = l
    /\ ops' = Append(ops, op)
    /\ trail' = Append(trail, l)

ListNext ==
    /\ fatal = "" /\ Len(ops) < MaxOps
    /\ Called("next", next(list))
    /\ UNCHANGED appVars

ListPrevious ==
    /\ fatal = "" /\ Len(ops) < MaxOps
    /\ Called("previous", previous(list))
    /\ UNCHANGED appVars

ListFirst ==
    /\ fatal = "" /\ Len(ops) < MaxOps
    /\ Called("first", first(list))
    /\ UNCHANGED appVars

\* last() panics on an empty list when the build checks overflow
ListLast ==
    /\ fatal = "" /\ Len(ops) < MaxOps
    /\ \E ck \in BOOLEAN :
           IF last_overflows(list) /\ ck
           THEN /\ fatal' = "last: attempt to subtract with overflow"
                /\ UNCHANGED <<list, ops, trail>>
           ELSE /\ Called("last", last(list))
                /\ fatal' = fatal
    /\ UNCHANGED <<status, pane, countries, cities, help, pc, frame, shown, renders, event,
                   before, calls>>

NextList == ListNext \/ ListPrevious \/ ListFirst \/ ListLast

SpecList == InitList /\ [][NextList]_vars

-----------------------------------------------------------------------------
(* nord::get_status on its own: `nordvpn status` has run and printed any text *)
(* of at most MaxLines lines, which get_status then reads                     *)

\* the lines `nordvpn status` may print: the six labelled lines, a line that
\* holds a label after other text, and the update banner with and without a
\* full stop
StatusLines ==
    { <<"Status: ", "Connected">>,
      <<"IP: ", "192", ".", "0">>,
      <<"Country: ", "Spain">>,
      <<"City: ", "Madrid">>,
      <<"Transfer: ", "1.2 GiB", " received", ", ", "500 MiB", " sent">>,
      <<"Uptime: ", "2", " hours ", "5", " minutes ", "10", " seconds">>,
      <<"Server ", "IP: ", "198">>,
      <<"A new version of ", "NordVPN", " is available">>,
      <<"Please update ", "NordVPN", ".">> }

\* the text made of the lines ls, each ended by a line end
RECURSIVE unlines(_)
unlines(ls) == IF ls = <<>> THEN <<>> ELSE Head(ls) \o <<NL>> \o unlines(Tail(ls))

StatusOutputs == {unlines(ls) : ls \in UNION {[1..n -> StatusLines] : n \in 0..MaxLines}}

\* Command::new("nordvpn").arg("status").output() has returned the text
InitStatus ==
    /\ \E t \in StatusOutputs :
           calls = <<[cmd |-> "status", arg |-> <<>>, stdout |-> t]>>
    /\ pc = "output"
    /\ status = get_status(<<>>)
    /\ fatal = ""
    /\ countries = with_items(<<>>)
    /\ cities = with_items(<<>>)
    /\ pane = Pane_first
    /\ help = FALSE
    /\ frame = <<>>
    /\ shown = <<>>
    /\ renders = 0
    /\ event = NoEvent
    /\ before = Fields(App)
    /\ list = IdleList
    /\ ops = <<>>
    /\ trail = <<>>

\* what get_status leaves: b holds the Status it returned or its panic
StatusRead(b) ==
    /\ status' = b.status
    /\ fatal' = b.fatal
    /\ pc' = IF b.fatal # "" THEN "panic" ELSE "parsed"
    /\ UNCHANGED <<pane, countries, cities, help, frame, shown, renders, event, before,
                   calls, listVars>>

\* parse_output and the extraction of the fields
ReadStatus ==
    /\ pc = "output"
    /\ StatusRead(status_fetched(App, [ok |-> TRUE, stdout |-> calls[1].stdout]))

NextStatus == ReadStatus

SpecStatus == InitStatus /\ [][NextStatus]_vars

-----------------------------------------------------------------------------
(* Properties.  `event`, `before` and `calls` describe the loop iteration   *)
(* that led to the current state, so a statement about one key press is a   *)
(* state predicate.                                                         *)

\* the loop is running: it is about to draw or to read an event
Live == pc \in {"draw", "read"}

\* the event of this iteration is a press of one of `codes`
Pressed(codes) == event.type = "Key" /\ event.kind = "Press" /\ event.code \in codes

\* the handler of this iteration's event ran to its end and the loop goes on
Completed == pc = "draw" /\ event # NoEvent

\* the index l.state selects, when it selects an item of l
HasSelected(l) == l.state # None /\ l.state[1] >= 0 /\ l.state[1] < Len(l.items)

SelectedItem(l) == l.items[l.state[1] + 1]

\* C1: whenever a country is selected, the items of the city list are exactly
\* the cities of that country
C1_CitiesAreThoseOfSelectedCountry ==
    (Live /\ HasSelected(countries)) => cities.items = SelectedItem(countries).cities

\* C2: with at least one country in the list, no sequence of key presses
\* reaches one of the fatal lookups of reload_cities, connect_selected and
\* connect_random
C2_NoFatalLookup ==
    Len(countries.items) >= 1 =>
        fatal \notin {"reload_cities: expect", "connect_selected: expect",
                      "connect_random: expect"}

C4_QuitOnlyWithHelpHidden ==
    /\ (Pressed({"q", "Esc"}) /\ before.help) =>
           /\ pc = "draw"
           /\ Fields(App) = [before EXCEPT !.help = FALSE]
           /\ calls = <<>>
    /\ (Pressed({"q", "Esc"}) /\ ~before.help) => pc = "done"
    /\ pc = "done" => (Pressed({"q", "Esc"}) /\ ~before.help)

\* q pressed with the help shown: the help is hidden and the loop goes on
C4_Witness == Pressed({"q"}) /\ before.help /\ ~help /\ pc = "draw"

\* the list of the active pane
ActiveList(f) == IF f.pane = "Country" THEN f.countries ELSE f.cities

\* the connect requests of this iteration
ConnectCalls == SelectSeq(calls, LAMBDA c : c.cmd = "c")

\* C5: c or Enter with an item selected in the active pane's list issues
\* exactly one connect request, for the name of the item at that list's cursor
C5_ConnectsSelectedItem ==
    (Pressed({"c", "Enter"}) /\ HasSelected(ActiveList(before))) =>
        /\ Len(ConnectCalls) = 1
        /\ ConnectCalls[1].arg = SelectedItem(ActiveList(before)).name

\* Enter in the City pane with the second city selected connects to that city
C5_Witness ==
    /\ Pressed({"Enter"}) /\ pc = "draw"
    /\ before.pane = "City" /\ before.cities.state = Some(1)
    /\ Len(calls) = 2 /\ calls[1].arg = before.cities.items[2].name

\* the commands run in this iteration, in order
Cmds == [i \in 1..Len(calls) |-> calls[i].cmd]

ExpectedCmds(code) ==
    CASE code \in {"c", "Enter", "R"} -> <<"c", "status">>
      [] code = "d" -> <<"d", "status">>
      [] code = "r" -> <<"status">>
      [] OTHER -> <<>>

\* s is an initial part of t
IsPrefix(s, t) == Len(s) <= Len(t) /\ \A i \in 1..Len(s) : s[i] = t[i]

\* C6: a key press whose handling runs to its end has run [connect, status]
\* for c, Enter and R, [disconnect, status] for d, [status] for r and nothing
\* for any other key, and one that panics has run an initial part of that
\* sequence; the stored status changes only to the result of a status fetch,
\* and after a connect or disconnect it is the result of a fetch made after
\* that request
C6_CallsPerKeyPress ==
    /\ (Pressed(KeyCodes) /\ pc \in {"draw", "done"}) => Cmds = ExpectedCmds(event.code)
    /\ Pressed(KeyCodes) => IsPrefix(Cmds, ExpectedCmds(event.code))
    /\ status # before.status =>
           /\ calls # <<>> /\ calls[Len(calls)].cmd = "status"
           /\ status = get_status(calls[Len(calls)].stdout)
    /\ (Completed /\ \E i \in 1..Len(calls) : calls[i].cmd \in {"c", "d"}) =>
           /\ calls[Len(calls)].cmd = "status"
           /\ status = get_status(calls[Len(calls)].stdout)

\* d pressed: disconnect, then a status fetch whose result replaced the status
C6_Witness ==
    /\ Pressed({"d"}) /\ pc = "draw"
    /\ Cmds = <<"d", "status">>
    /\ status # before.status

\* the index next() and previous() select on a list of at least one item
NextIndex(l) == IF l.state = None THEN 0 ELSE (l.state[1] + 1) % Len(l.items)

PrevIndex(l) ==
    IF l.state = None THEN 0
    ELSE IF l.state[1] = 0 THEN Len(l.items) - 1 ELSE l.state[1] - 1

\* the city list as recomputed from the country at the cursor
CitiesOfSelected == [state |-> None, items |-> SelectedItem(countries).cities]

\* C7: in the Country pane (with at least one country) j/Down, k/Up and g move
\* the country cursor as next(), previous() and first() do and replace the
\* city list by the cities of the country at the new cursor, nothing selected;
\* G moves the cursor to the last country and leaves the city list as it was
C7_CountryPaneKeys ==
    (Completed /\ before.pane = "Country" /\ Len(before.countries.items) >= 1) =>
        /\ countries.items = before.countries.items
        /\ Pressed({"j", "Down"}) =>
               countries.state = Some(NextIndex(before.countries)) /\ cities = CitiesOfSelected
        /\ Pressed({"k", "Up"}) =>
               countries.state = Some(PrevIndex(before.countries)) /\ cities = CitiesOfSelected
        /\ Pressed({"g"}) => countries.state = Some(0) /\ cities = CitiesOfSelected
        /\ Pressed({"G"}) =>
               /\ countries.state = Some(Len(countries.items) - 1)
               /\ cities = before.cities

\* G in the Country pane moved the cursor from the first country to the third,
\* and the city list still holds the first country's cities, not the third's
C7_Witness ==
    /\ Pressed({"G"}) /\ pc = "draw" /\ before.pane = "Country"
    /\ before.countries.state = Some(0) /\ countries.state = Some(2)
    /\ cities.items = countries.items[1].cities
    /\ cities.items # countries.items[3].cities

C9_PaneKeysToggle ==
    Pressed({"l", "Right", "Tab", "h", "Left"}) =>
        /\ pc = "draw"
        /\ pane = IF before.pane = "Country" THEN "City" ELSE "Country"
        /\ countries = before.countries
        /\ cities = before.cities
        /\ status = before.status
        /\ help = before.help
        /\ calls = <<>>

\* h pressed in the City pane with a city selected and the help shown
C9_Witness ==
    /\ Pressed({"h"}) /\ before.pane = "City" /\ pane = "Country"
    /\ cities.state # None /\ help

\* the first k calls were all next()
OnlyNext(k) == \A i \in 1..k : ops[i] = "next"

\* C10: next() on a list of n >= 1 items selects 0 from no selection and
\* (i + 1) mod n from i, so that the k-th of successive calls from no
\* selection selects (k - 1) mod n; on an empty list it changes nothing; it
\* never changes the items
C10_NextCycles ==
    \A k \in 1..Len(ops) :
        ops[k] = "next" =>
            LET was == trail[k]
                now == trail[k + 1]
                n == Len(was.items)
            IN /\ now.items = was.items
               /\ n = 0 => now = was
               /\ (n = 0 /\ OnlyNext(k)) => now.state = None
               /\ n >= 1 => now.state = Some(NextIndex(was))
               /\ (n >= 1 /\ OnlyNext(k)) => now.state = Some((k - 1) % n)

\* MaxLen + 1 calls of next() on a list of MaxLen items: the last item was
\* reached and the cursor is back at 0
C10_Witness ==
    /\ Len(list.items) = MaxLen /\ Len(ops) = MaxLen + 1 /\ OnlyNext(Len(ops))
    /\ trail[MaxLen + 1].state = Some(MaxLen - 1)
    /\ list.state = Some(0)

\* the first k calls were all previous()
OnlyPrevious(k) == \A i \in 1..k : ops[i] = "previous"

\* C11: previous() on a list of n >= 1 items selects 0 from no selection, n - 1
\* from 0 and i - 1 from i > 0; on an empty list it changes nothing, so that a
\* selection that is absent stays absent; it never changes the items
C11_PreviousCycles ==
    \A k \in 1..Len(ops) :
        ops[k] = "previous" =>
            LET was == trail[k]
                now == trail[k + 1]
                n == Len(was.items)
            IN /\ now.items = was.items
               /\ n = 0 => now = was
               /\ (n = 0 /\ OnlyPrevious(k)) => now.state = None
               /\ (n >= 1 /\ was.state = None) => now.state = Some(0)
               /\ (n >= 1 /\ was.state = Some(0)) => now.state = Some(n - 1)
               /\ (n >= 1 /\ was.state # None /\ was.state # Some(0)) =>
                      now.state = Some(was.state[1] - 1)

\* three calls of previous() on a list of MaxLen items: 0 was selected, then
\* the last item by wrapping, then the one before it
C11_Witness ==
    /\ Len(list.items) = MaxLen /\ Len(ops) = 3 /\ OnlyPrevious(3)
    /\ trail[2].state = Some(0)
    /\ trail[3].state = Some(MaxLen - 1)
    /\ list.state = Some(MaxLen - 2)

\* the event of this iteration is one the loop ignores
Ignored == event # NoEvent /\ ~(event.type = "Key" /\ event.kind = "Press")

\* C12: an event that is no key event, or a key event whose kind is not Press,
\* leaves the pane, both lists, the status and the help flag as they were,
\* runs no collaborator command and does not end the loop
C12_OtherEventsIgnored ==
    Ignored =>
        /\ Fields(App) = before
        /\ calls = <<>>
        /\ pc = "draw"
        /\ fatal = ""

\* the release of q, read in the City pane with a city selected and the help
\* hidden: the loop goes on
C12_Witness ==
    /\ event = [type |-> "Key", kind |-> "Release", code |-> "q"]
    /\ pc = "draw" /\ pane = "City" /\ cities.state # None /\ ~help

\* C13: whenever the loop awaits an event, exactly one render has completed
\* since the event read before (or since the start), and that render read the
\* fields the App has now; after an event is handled no render has run until
\* the loop comes back to its draw
C13_OneRenderPerRead ==
    /\ pc = "read" =>
           /\ renders = 1
           /\ shown = Fields(App)
           /\ frame = render(App)
    /\ pc = "draw" => renders = 0

\* the loop awaits an event with the help overlay on screen, drawn from a state
\* that key presses made: the City pane with the second city selected
C13_Witness ==
    /\ pc = "read" /\ renders = 1
    /\ frame = <<"help">> /\ shown.help
    /\ shown.pane = "City" /\ shown.cities.state = Some(1)

\* the connect request of a press of R for which gen_range returns i
RandomPick(i) == connect_random(App, [NoInput EXCEPT !.random = i]).calls[1]

\* C14: R with n >= 1 countries issues exactly one connect request, for the
\* name of a country of the list, and leaves the pane, both lists and the help
\* flag as they were; when its handling runs to its end it has then fetched
\* the status, which is the stored one; and while the loop awaits an event,
\* for each index below n a press of R for which gen_range returns that index
\* requests the country at it
C14_RandomConnects ==
    /\ (Pressed({"R"}) /\ Len(before.countries.items) >= 1) =>
           /\ Len(ConnectCalls) = 1
           /\ calls[1].cmd = "c"
           /\ \E i \in 1..Len(before.countries.items) :
                  calls[1].arg = before.countries.items[i].name
           /\ Fields(App) = [before EXCEPT !.status = status]
           /\ pc = "draw" =>
                  /\ Cmds = <<"c", "status">>
                  /\ status = get_status(calls[2].stdout)
    /\ (pc = "read" /\ Len(countries.items) >= 1) =>
           \A i \in 0..(Len(countries.items) - 1) :
               RandomPick(i) = [cmd |-> "c", arg |-> countries.items[i + 1].name,
                                stdout |-> <<>>]

\* R pressed in the City pane with the first country and a city selected: the
\* request names the last country, and the cursors stay where they were
C14_Witness ==
    /\ Pressed({"R"}) /\ pc = "draw" /\ pane = "City"
    /\ Len(countries.items) = MaxCountries
    /\ before.countries.state = Some(0) /\ countries.state = Some(0)
    /\ cities.state # None
    /\ calls[1].arg = countries.items[MaxCountries].name
    /\ status # before.status

\* the labels of the fields of a Status
Labels == {"Status: ", "IP: ", "Country: ", "City: ", "Transfer: ", "Uptime: "}

\* the field of the Status st read under a label
FieldOf(st, label) ==
    CASE label = "Status: " -> st.status
      [] label = "IP: " -> st.ip
      [] label = "Country: " -> st.country
      [] label = "City: " -> st.city
      [] label = "Transfer: " -> st.transfer
      [] label = "Uptime: " -> st.uptime

\* that field when it is empty
EmptyField(label) == IF label = "Transfer: " THEN [up |-> <<>>, down |-> <<>>] ELSE <<>>

\* the text that get_status was given
Stdout == calls[1].stdout

\* the lines of text t that begin with a label
LabelLines(t, label) ==
    LET ls == lines(t) IN {i \in 1..Len(ls) : ls[i] # <<>> /\ Head(ls[i]) = label}

\* no line of text t holds the label anywhere
LabelAbsent(t, label) == \A i \in 1..Len(lines(t)) : ~contains(lines(t)[i], label)

\* C15: get_status panics on no text, the ones with the banner token
\* included, and each field whose label is in no line of the text is empty
C15_StatusReadNeverFails ==
    /\ fatal = ""
    /\ pc = "parsed" =>
           \A label \in Labels :
               LabelAbsent(Stdout, label) => FieldOf(status, label) = EmptyField(label)

\* the text after the label in the first line of t that begins with it
LabelValue(t, label) ==
    LET hits == LabelLines(t, label)
    IN Tail(lines(t)[CHOOSE i \in hits : \A j \in hits : i <= j])

\* the field a Status holds for a label when it is read from that line
FieldFromLabelLine(t, label) ==
    IF LabelLines(t, label) = {} THEN EmptyField(label)
    ELSE CASE label = "Transfer: " ->
                  extract_transfer(replace(LabelValue(t, label), ", ", <<NL>>))
           [] label = "Uptime: " ->
                  replace(replace(replace(LabelValue(t, label), " hours ", <<":">>),
                                  " minutes ", <<":">>),
                          " seconds", <<>>)
           [] OTHER -> LabelValue(t, label)

\* C16: each field of the Status read from a text without the banner is the
\* value of the first line that begins with the field's label (empty when no
\* line does); a line that holds the label after other text supplies nothing
C16_FieldsByLabelPrefix ==
    (pc = "parsed" /\ ~contains(Stdout, "NordVPN")) =>
        \A label \in Labels : FieldOf(status, label) = FieldFromLabelLine(Stdout, label)

\* what the environment may give while a press of `code` is handled
Inputs(code) ==
    CASE code = "r" -> {[NoInput EXCEPT !.reply = o] : o \in Outputs}
      [] code \in {"c", "Enter", "d"} ->
             {[NoInput EXCEPT !.reply = o, !.spawn = sp] : o \in Outputs, sp \in BOOLEAN}
      [] code = "R" ->
             {[NoInput EXCEPT !.reply = o, !.spawn = sp, !.random = rnd] :
                  o \in Outputs, sp \in BOOLEAN,
                  rnd \in 0..(Len(countries.items) - 1) \cup {0}}
      [] code = "G" -> {[NoInput EXCEPT !.checked = ck] : ck \in BOOLEAN}
      [] OTHER -> {NoInput}

\* the App as it is but for the help flag
WithHelp(h) == [App EXCEPT !.help = h]

\* C17: whenever the loop awaits an event, a press of any key but q, Esc and ?
\* leaves the same pane, lists, status, commands and outcome with the help
\* shown as with the help hidden, and leaves the help flag as it was
C17_HelpDoesNotGateKeys ==
    pc = "read" =>
        \A code \in KeyCodes \ {"q", "Esc", "?"} :
            \A in \in Inputs(code) :
                /\ on_event(WithHelp(TRUE), Press(code), in) =
                       [on_event(WithHelp(FALSE), Press(code), in) EXCEPT !.help = TRUE]
                /\ on_event(App, Press(code), in).help = help

\* j pressed in the Country pane while the help is shown: the country cursor
\* moved and the help is still shown
C17_Witness ==
    /\ Pressed({"j"}) /\ pc = "draw" /\ before.help /\ help
    /\ before.pane = "Country"
    /\ before.countries.state = Some(0) /\ countries.state = Some(1)

\* C18: when a render has completed, the pane, the help flag, the status and
\* both lists with their cursors are what they were before it (`before` is
\* taken as the render starts), and the frame holds the help overlay alone
\* when the help flag is set, otherwise the title, the status, the country
\* list, the city list and the footer, in that order
C18_RenderReadsOnly ==
    pc = "read" =>
        /\ Fields(App) = before
        /\ help => frame = <<"help">>
        /\ ~help => frame = <<"title", "status", "countries", "cities", "footer">>

\* the five panels drawn with the help hidden, the last country and the second
\* city selected, and both cursors as they were before the render
C18_Witness ==
    /\ pc = "read" /\ ~help /\ Len(frame) = 5
    /\ Len(countries.items) = MaxCountries
    /\ countries.state = Some(MaxCountries - 1) /\ cities.state = Some(1)
    /\ before.countries = countries /\ before.cities = cities

\* the names of the cities of the country at the cursor of countries list l
CityNamesOfSelected(l) ==
    IF HasSelected(l)
    THEN {SelectedItem(l).cities[j].name : j \in 1..Len(SelectedItem(l).cities)}
    ELSE {}

\* C19: every connect request issued by c or Enter in the City pane names a
\* city of the country that the country cursor is on
C19_CityOfSelectedCountry ==
    (Pressed({"c", "Enter"}) /\ before.pane = "City" /\ ConnectCalls # <<>>) =>
        ConnectCalls[1].arg \in CityNamesOfSelected(before.countries)

\* a press of q or Esc on the App a either ends the loop or only hides the
\* help, and from what it leaves a press of q or Esc ends the loop
QuitsInTwo(a, after) ==
    /\ after.fatal = ""
    /\ after.calls = <<>>
    /\ after.done \/
           /\ a.help
           /\ Fields(after) = [Fields(a) EXCEPT !.help = FALSE]
           /\ \A code \in {"q", "Esc"} : on_event(after, Press(code), NoInput).done

\* C20: whenever the loop awaits an event, two presses of q or Esc in a row
\* end it: the first ends it, or hides the help and then the second ends it
C20_TwoQuitsEndLoop ==
    pc = "read" =>
        \A code \in {"q", "Esc"} : QuitsInTwo(App, on_event(App, Press(code), NoInput))

\* Esc pressed with the help shown, in the City pane: the help is hidden, the
\* loop goes on, and the next press of q or Esc ends it
C20_Witness ==
    /\ Pressed({"Esc"}) /\ before.help /\ ~help /\ pc = "draw" /\ pane = "City"
    /\ on_event(App, Press("q"), NoInput).done

\* C21: with at least one country in the list, c or Enter pressed while the
\* list of the active pane has nothing selected issues one connect request,
\* for the name of the item at index 0 of that list
C21_ConnectsFirstWhenNoneSelected ==
    (/\ Pressed({"c", "Enter"})
     /\ ActiveList(before).state = None
     /\ Len(before.countries.items) >= 1) =>
        /\ Len(ConnectCalls) = 1
        /\ Len(ActiveList(before).items) >= 1
        /\ ConnectCalls[1].arg = ActiveList(before).items[1].name

=============================================================================
